---- MODULE Spec2Model ----
(***************************************************************************)
(* Model of the phone cache (agents/phone_cache.py), the normalizer        *)
(* (agents/web_scraper.py) and the cache-or-fetch coordinator              *)
(* (agents/fetch_data.py).                                                 *)
(*                                                                         *)
(* Text is a sequence of one-character strings, so that lower-casing,      *)
(* replacement, substring search and digit runs are computed as the code   *)
(* computes them.  The rupee sign is the one-element token "Rs".           *)
(* A Python value is a record [t, n, s]: t the type tag, n the number      *)
(* (floats in tenths), s the text.                                         *)
(***************************************************************************)
EXTENDS Integers, Sequences, FiniteSets, TLC

(* ------------------------------ bounds --------------------------------- *)
\* longest list handed to add_phones / longest scraped list
MaxBatch == 2
\* largest limit / max_phones a caller passes
MaxLimit == 2

(* ------------------------------- text ---------------------------------- *)
UpperToLower ==
    ("A" :> "a") @@ ("B" :> "b") @@ ("C" :> "c") @@ ("D" :> "d") @@ ("E" :> "e") @@
    ("F" :> "f") @@ ("G" :> "g") @@ ("H" :> "h") @@ ("I" :> "i") @@ ("J" :> "j") @@
    ("K" :> "k") @@ ("L" :> "l") @@ ("M" :> "m") @@ ("N" :> "n") @@ ("O" :> "o") @@
    ("P" :> "p") @@ ("Q" :> "q") @@ ("R" :> "r") @@ ("S" :> "s") @@ ("T" :> "t") @@
    ("U" :> "u") @@ ("V" :> "v") @@ ("W" :> "w") @@ ("X" :> "x") @@ ("Y" :> "y") @@
    ("Z" :> "z")

LowerChar(c) ==
    IF c \in DOMAIN UpperToLower THEN UpperToLower[c] ELSE c

\* str.lower()
Lower(s) ==
    [i \in 1..Len(s) |-> LowerChar(s[i])]

\* str.replace(old, new) for a one-character old
ReplaceChar(s, old, new) ==
    [i \in 1..Len(s) |-> IF s[i] = old THEN new ELSE s[i]]

\* str.replace(old, '') for a one-character old
RemoveChar(s, old) ==
    SelectSeq(s, LAMBDA c : c # old)

\* kw in s
Contains(s, kw) ==
    \E i \in 1..(Len(s) - Len(kw) + 1) : SubSeq(s, i, i + Len(kw) - 1) = kw

DigitVal ==
    ("0" :> 0) @@ ("1" :> 1) @@ ("2" :> 2) @@ ("3" :> 3) @@ ("4" :> 4) @@
    ("5" :> 5) @@ ("6" :> 6) @@ ("7" :> 7) @@ ("8" :> 8) @@ ("9" :> 9)

IsDigit(c) ==
    c \in DOMAIN DigitVal

RECURSIVE DigitsToInt(_)
\* the number a run of decimal digits denotes
DigitsToInt(s) ==
    IF s = <<>> THEN 0
    ELSE 10 * DigitsToInt(SubSeq(s, 1, Len(s) - 1)) + DigitVal[s[Len(s)]]

AllDigits(s) ==
    s # <<>> /\ \A i \in 1..Len(s) : IsDigit(s[i])

NumToDigit ==
    <<"0", "1", "2", "3", "4", "5", "6", "7", "8", "9">>

RECURSIVE NatToText(_)
\* str(n) for n >= 0
NatToText(n) ==
    IF n < 10 THEN <<NumToDigit[n + 1]>>
    ELSE NatToText(n \div 10) \o <<NumToDigit[(n % 10) + 1]>>

IntToText(n) ==
    IF n < 0 THEN <<"-">> \o NatToText(-n) ELSE NatToText(n)

\* " ".join(parts)
RECURSIVE JoinSpace(_)
JoinSpace(parts) ==
    IF parts = <<>> THEN <<>>
    ELSE IF Len(parts) = 1 THEN parts[1]
    ELSE parts[1] \o <<" ">> \o JoinSpace(Tail(parts))

(* --------------------------- Python values ----------------------------- *)
PyInt(k) == [t |-> "int", n |-> k, s |-> <<>>]
PyFloat(tenths) == [t |-> "float", n |-> tenths, s |-> <<>>]
PyStr(txt) == [t |-> "str", n |-> 0, s |-> txt]
PyNone == [t |-> "none", n |-> 0, s |-> <<>>]
\* the key is not in the dict
Absent == [t |-> "absent", n |-> 0, s |-> <<>>]

\* dict.get(key, default)
Get(d, key, default) ==
    IF d[key].t = "absent" THEN default ELSE d[key]

\* truth value of a Python value
Truthy(v) ==
    CASE v.t = "str" -> v.s # <<>>
      [] v.t \in {"int", "float"} -> v.n # 0
      [] OTHER -> FALSE

\* str(v), and the text an f-string puts for v
StrOf(v) ==
    CASE v.t = "str" -> v.s
      [] v.t = "int" -> IntToText(v.n)
      [] v.t = "float" ->
            (IF v.n < 0 THEN <<"-">> ELSE <<>>)
            \o NatToText((IF v.n < 0 THEN -v.n ELSE v.n) \div 10) \o <<".">>
            \o NatToText((IF v.n < 0 THEN -v.n ELSE v.n) % 10)
      [] OTHER -> <<"N", "o", "n", "e">>

\* int(v): [ok, n]; ok is FALSE where Python raises ValueError/TypeError
IntOf(v) ==
    CASE v.t = "int" -> [ok |-> TRUE, n |-> v.n]
      [] v.t = "float" ->
            [ok |-> TRUE,
             n |-> IF v.n < 0 THEN -((-v.n) \div 10) ELSE v.n \div 10]
      [] v.t = "str" ->
            IF AllDigits(v.s) THEN [ok |-> TRUE, n |-> DigitsToInt(v.s)]
            ELSE IF Len(v.s) > 1 /\ v.s[1] = "-" /\ AllDigits(Tail(v.s))
                 THEN [ok |-> TRUE, n |-> -DigitsToInt(Tail(v.s))]
            ELSE [ok |-> FALSE, n |-> 0]
      [] OTHER -> [ok |-> FALSE, n |-> 0]

\* position of the first "." in s, or 0
FirstDot(s) ==
    IF \E i \in 1..Len(s) : s[i] = "."
    THEN CHOOSE i \in 1..Len(s) : s[i] = "." /\ \A j \in 1..(i - 1) : s[j] # "."
    ELSE 0

\* float(text) for unsigned decimal text, in tenths: [ok, n]
FloatOfText(s) ==
    LET d == FirstDot(s)
        whole == IF d = 0 THEN s ELSE SubSeq(s, 1, d - 1)
        frac == IF d = 0 THEN <<>> ELSE SubSeq(s, d + 1, Len(s))
        wellFormed ==
            /\ (whole = <<>> \/ AllDigits(whole))
            /\ (frac = <<>> \/ AllDigits(frac))
            /\ (whole # <<>> \/ frac # <<>>)
    IN  IF wellFormed
        THEN [ok |-> TRUE,
              n |-> 10 * DigitsToInt(whole)
                    + (IF frac = <<>> THEN 0 ELSE DigitVal[frac[1]])]
        ELSE [ok |-> FALSE, n |-> 0]

\* float(v) in tenths: [ok, n]
FloatOf(v) ==
    CASE v.t = "int" -> [ok |-> TRUE, n |-> 10 * v.n]
      [] v.t = "float" -> [ok |-> TRUE, n |-> v.n]
      [] v.t = "str" -> FloatOfText(v.s)
      [] OTHER -> [ok |-> FALSE, n |-> 0]

(* ------------------------ phone dicts and rows ------------------------- *)
StrKeys ==
    {"full_name", "brand", "model", "processor", "category", "source", "url",
     "description"}

IntKeys ==
    {"price", "ram", "storage", "camera_mp", "battery_mah"}

FloatKeys ==
    {"rating", "display_inches"}

ScoreKeys ==
    {"_distance", "_score"}

Keys ==
    StrKeys \cup IntKeys \cup FloatKeys \cup ScoreKeys

\* the dict with no key
EmptyDict ==
    [k \in Keys |-> Absent]

\* d with the keys of upd set
With(d, upd) ==
    [k \in Keys |-> IF k \in DOMAIN upd THEN upd[k] ELSE d[k]]

(* ----------------------- the collection (ChromaDB) --------------------- *)
\* A collection is the sequence of its entries [id, document, metadata] in
\* insertion order; it lives in the persist directory.

CollIds(coll) ==
    {coll[i].id : i \in 1..Len(coll)}

\* collection.count()
Count(coll) ==
    Len(coll)

\* a write that adds the entry without looking for its id
AppendOne(coll, e) ==
    Append(coll, e)

\* collection.upsert of one entry: overwrite in place, or append
UpsertOne(coll, e) ==
    IF e.id \in CollIds(coll)
    THEN [i \in 1..Len(coll) |-> IF coll[i].id = e.id THEN e ELSE coll[i]]
    ELSE Append(coll, e)

RECURSIVE UpsertAll(_, _)
UpsertAll(coll, entries) ==
    IF entries = <<>> THEN coll
    ELSE UpsertAll(UpsertOne(coll, Head(entries)), Tail(entries))

\* the ids of a batch are pairwise distinct
DistinctIds(entries) ==
    \A i, j \in 1..Len(entries) : entries[i].id = entries[j].id => i = j

\* What the library may do where the source leaves it open:
\*   get : collection.get(include=["ids"]) raises ("raise"), returns the ids
\*         in batches as the loop expects ("nested"), or returns a flat list
\*         of ids, whose inner loop then walks the characters ("flat");
\*   dup : collection.upsert given the same id twice in one batch raises
\*         ("raise") or keeps the last one ("lastwins").
\* No id of the inputs is a single character, so "flat" finds no duplicate,
\* as "raise" does, and is not explored separately.
LibModes ==
    [get : {"raise", "nested"}, dup : {"raise", "lastwins"}]

(* ------------------------------ try/except ----------------------------- *)
\* A block is a record whose field raised says that a statement of the block
\* raised; its other fields are what the function returns when none did.

\* the block without its handler: what it raises reaches the caller
NoTry(block, handler) ==
    block

\* try: block / except Exception: return handler
Try(block, handler) ==
    IF block.raised THEN handler ELSE block

(* ------------------------- PhoneCache.add_phones ----------------------- *)
\* existing_ids, lines 145-153
ExistingIds(coll, getMode) ==
    CASE getMode = "raise" -> {}
      [] getMode = "nested" -> CollIds(coll)
      [] OTHER -> UNION {{<<id[i]>> : i \in 1..Len(id)} : id \in CollIds(coll)}

\* phone_id, lines 157-162: [ok, id]
PhoneId(phone) ==
    LET full == Get(phone, "full_name", PyNone)
        base == IF Truthy(full) THEN full
                ELSE PyStr(StrOf(Get(phone, "brand", PyStr(<<>>))) \o <<"_">>
                           \o StrOf(Get(phone, "model", PyStr(<<>>))))
        url_part == Get(phone, "url", PyStr(<<>>))
        uid == IF Truthy(url_part)
               THEN PyStr(StrOf(base) \o <<"_", "_">> \o StrOf(url_part))
               ELSE base
    IN  IF uid.t = "str"
        THEN [ok |-> TRUE,
              id |-> Lower(ReplaceChar(ReplaceChar(ReplaceChar(uid.s,
                         " ", "_"), "/", "_"), ":", "_"))]
        ELSE [ok |-> FALSE, id |-> <<>>]

\* doc, lines 169-175 and 197
DocOf(phone) ==
    Lower(JoinSpace(<<StrOf(Get(phone, "full_name", PyStr(<<>>))),
                      StrOf(Get(phone, "brand", PyStr(<<>>))),
                      StrOf(Get(phone, "model", PyStr(<<>>))),
                      StrOf(Get(phone, "processor", PyStr(<<>>))),
                      StrOf(Get(phone, "description", PyStr(<<>>)))>>))

\* the int()/float() conversions of lines 182-188 all succeed
MetadataOk(phone) ==
    /\ \A k \in IntKeys : IntOf(Get(phone, k, PyInt(0))).ok
    /\ \A k \in FloatKeys : FloatOf(Get(phone, k, PyInt(0))).ok

\* metadata, lines 178-194
MetadataOf(phone) ==
    [k \in Keys |->
        CASE k = "description" ->
                PyStr(StrOf(Get(phone, k, PyStr(<<"N", "/", "A">>))))
          [] k \in StrKeys \ {"description"} ->
                PyStr(StrOf(Get(phone, k, PyStr(<<>>))))
          [] k \in IntKeys -> PyInt(IntOf(Get(phone, k, PyInt(0))).n)
          [] k \in FloatKeys -> PyFloat(FloatOf(Get(phone, k, PyInt(0))).n)
          [] OTHER -> Absent]

RECURSIVE AddLoop(_, _, _)
\* the loop of lines 155-198: [ok, entries]; ok is FALSE when an iteration
\* raises, which leaves the loop for the handler of line 214
AddLoop(phones, existing_ids, acc) ==
    IF phones = <<>> THEN [ok |-> TRUE, entries |-> acc]
    ELSE LET phone == Head(phones)
             pid == PhoneId(phone)
         IN  IF ~pid.ok THEN [ok |-> FALSE, entries |-> <<>>]
             ELSE IF pid.id \in existing_ids
                  THEN AddLoop(Tail(phones), existing_ids, acc)
             ELSE IF ~MetadataOk(phone) THEN [ok |-> FALSE, entries |-> <<>>]
             ELSE AddLoop(Tail(phones), existing_ids,
                          Append(acc, [id |-> pid.id,
                                       document |-> DocOf(phone),
                                       metadata |-> MetadataOf(phone)]))

\* the try block of add_phones, lines 141-212: [raised, coll, ret].  The
\* loop raises on a value int() or float() rejects, the upsert when the
\* library rejects a repeated id.
AddPhonesBlock(coll, phones, lib) ==
    LET loop == AddLoop(phones, ExistingIds(coll, lib.get), <<>>)
    IN  IF ~loop.ok
        THEN [raised |-> TRUE, coll |-> coll, ret |-> 0]
        ELSE IF loop.entries = <<>>
             THEN [raised |-> FALSE, coll |-> coll, ret |-> 0]
        ELSE IF ~DistinctIds(loop.entries) /\ lib.dup = "raise"
             THEN [raised |-> TRUE, coll |-> coll, ret |-> 0]
        ELSE [raised |-> FALSE, coll |-> UpsertAll(coll, loop.entries),
              ret |-> Len(loop.entries)]

\* add_phones(phones) on collection coll: [raised, coll, ret], lines 137-216
AddPhones(coll, phones, lib) ==
    IF phones = <<>> THEN [raised |-> FALSE, coll |-> coll, ret |-> 0]
    ELSE Try(AddPhonesBlock(coll, phones, lib),
             [raised |-> FALSE, coll |-> coll, ret |-> 0])

(* ------------------------- texts of the source ------------------------- *)
\* exclude_keywords, lines 286-288
exclude_keywords ==
    {<<"c", "a", "s", "e">>,
     <<"c", "o", "v", "e", "r">>,
     <<"c", "h", "a", "r", "g", "e", "r">>,
     <<"c", "a", "b", "l", "e">>,
     <<"s", "c", "r", "e", "e", "n", " ", "g", "u", "a", "r", "d">>,
     <<"p", "r", "o", "t", "e", "c", "t", "o", "r">>,
     <<"e", "a", "r", "p", "h", "o", "n", "e">>,
     <<"h", "e", "a", "d", "p", "h", "o", "n", "e">>,
     <<"a", "d", "a", "p", "t", "e", "r">>,
     <<"b", "a", "t", "t", "e", "r", "y">>,
     <<"p", "o", "w", "e", "r", " ", "b", "a", "n", "k">>,
     <<"s", "t", "a", "n", "d">>,
     <<"h", "o", "l", "d", "e", "r">>,
     <<"t", "e", "m", "p", "e", "r", "e", "d", " ", "g", "l", "a", "s", "s">>,
     <<"p", "o", "u", "c", "h">>,
     <<"f", "l", "i", "p", " ", "c", "o", "v", "e", "r">>,
     <<"b", "a", "c", "k", " ", "c", "o", "v", "e", "r">>}

\* phone_keywords, lines 300-302
phone_keywords ==
    {<<"p", "h", "o", "n", "e">>,
     <<"m", "o", "b", "i", "l", "e">>,
     <<"s", "m", "a", "r", "t", "p", "h", "o", "n", "e">>,
     <<"i", "p", "h", "o", "n", "e">>,
     <<"g", "a", "l", "a", "x", "y">>,
     <<"r", "e", "d", "m", "i">>,
     <<"r", "e", "a", "l", "m", "e">>,
     <<"o", "n", "e", "p", "l", "u", "s">>,
     <<"v", "i", "v", "o">>,
     <<"o", "p", "p", "o">>,
     <<"p", "o", "c", "o">>,
     <<"n", "o", "k", "i", "a">>,
     <<"m", "o", "t", "o", "r", "o", "l", "a">>,
     <<"s", "a", "m", "s", "u", "n", "g">>,
     <<"x", "i", "a", "o", "m", "i">>,
     <<"n", "o", "t", "h", "i", "n", "g">>,
     <<"i", "q", "o", "o">>,
     <<"p", "i", "x", "e", "l">>}

\* the chipset names looked for in the product name, line 336
chipset_words ==
    {<<"S", "n", "a", "p", "d", "r", "a", "g", "o", "n">>,
     <<"D", "i", "m", "e", "n", "s", "i", "t", "y">>,
     <<"B", "i", "o", "n", "i", "c">>}

\* the text get_first_text returns when nothing is found
NA ==
    <<"N", "/", "A">>

Unknown ==
    <<"U", "n", "k", "n", "o", "w", "n">>

Flipkart ==
    <<"F", "l", "i", "p", "k", "a", "r", "t">>

Budget ==
    <<"B", "u", "d", "g", "e", "t">>

MidRange ==
    <<"M", "i", "d", "-", "r", "a", "n", "g", "e">>

Flagship ==
    <<"F", "l", "a", "g", "s", "h", "i", "p">>

(* --------------------- WebScraperAgent: the normalizer ----------------- *)
\* the price range of a phone, line 313
MinPrice == 5000
MaxPrice == 200000
\* the category thresholds, lines 423 and 425
BudgetBelow == 15000
MidRangeBelow == 35000

IsSpace(c) ==
    c \in {" ", "\t", "\n"}

IsDigitOrDot(c) ==
    IsDigit(c) \/ c = "."

\* the character classes of the patterns: \d, [\d.] and \S
InClass(c, cls) ==
    CASE cls = "digit" -> IsDigit(c)
      [] cls = "digitdot" -> IsDigitOrDot(c)
      [] OTHER -> ~IsSpace(c)

\* the end of the longest run of characters of class cls that starts at i
RunEnd(s, i, cls) ==
    CHOOSE j \in i..Len(s) :
        /\ \A k \in i..j : InClass(s[k], cls)
        /\ (j = Len(s) \/ ~InClass(s[j + 1], cls))

\* the first position >= i that holds no white space (Len(s) + 1 if none)
SkipSpace(s, i) ==
    IF \E j \in i..Len(s) : ~IsSpace(s[j])
    THEN CHOOSE j \in i..Len(s) :
            ~IsSpace(s[j]) /\ \A k \in i..(j - 1) : IsSpace(s[k])
    ELSE Len(s) + 1

RECURSIVE WordsAt(_, _, _)
\* from position i: \s*word for every word of words, ignoring case
WordsAt(s, i, words) ==
    IF words = <<>> THEN TRUE
    ELSE LET a == SkipSpace(s, i)
             w == Head(words)
         IN  /\ a + Len(w) - 1 <= Len(s)
             /\ Lower(SubSeq(s, a, a + Len(w) - 1)) = w
             /\ WordsAt(s, a + Len(w), Tail(words))

\* the pattern (run)\s*w1\s*w2.. matches at i, for one of the alternatives
MatchesAt(s, i, cls, alts) ==
    /\ InClass(s[i], cls)
    /\ \E words \in alts : WordsAt(s, RunEnd(s, i, cls) + 1, words)

\* the least element of a set of numbers
Least(S) ==
    CHOOSE a \in S : \A b \in S : a <= b

\* the match whose run starts at the least of the positions hits
GroupAt(s, cls, hits) ==
    IF hits = {} THEN [found |-> FALSE, group |-> <<>>]
    ELSE [found |-> TRUE,
          group |-> SubSeq(s, Least(hits), RunEnd(s, Least(hits), cls))]

\* re.search(pattern, s, re.I): [found, group], group the run of the
\* leftmost match
Search(s, cls, alts) ==
    GroupAt(s, cls, {i \in 1..Len(s) : MatchesAt(s, i, cls, alts)})

RECURSIVE Split(_)
\* str.split(): the words of s
Split(s) ==
    LET a == SkipSpace(s, 1)
    IN  IF a > Len(s) THEN <<>>
        ELSE LET b == RunEnd(s, a, "nonspace")
             IN  <<SubSeq(s, a, b)>> \o Split(SubSeq(s, b + 1, Len(s)))

SpecKeys ==
    {"ram", "storage", "camera_mp", "battery_mah", "display_inches", "processor"}

\* the defaults of lines 383-390
DefaultSpecs ==
    [k \in SpecKeys |->
        CASE k = "ram" -> PyInt(4)
          [] k = "storage" -> PyInt(64)
          [] k = "camera_mp" -> PyInt(12)
          [] k = "battery_mah" -> PyInt(4000)
          [] k = "display_inches" -> PyFloat(65)
          [] OTHER -> PyStr(Unknown)]

\* a spec of lines 395-412 from its match: int(group), or the default
IntSpec(match, default) ==
    IF match.found THEN PyInt(DigitsToInt(match.group)) ELSE default

\* the display spec of lines 415-417 from its match: [ok, v]; ok is FALSE
\* when float(group) raises
FloatSpec(match, default) ==
    IF match.found
    THEN [ok |-> FloatOfText(match.group).ok,
          v |-> PyFloat(FloatOfText(match.group).n)]
    ELSE [ok |-> TRUE, v |-> default]

\* the specs of lines 383-419 from the five matches: [ok, specs]
SpecsFrom(ram_match, storage_match, camera_match, battery_match, display) ==
    [ok |-> display.ok,
     specs |-> [k \in SpecKeys |->
        CASE k = "ram" -> IntSpec(ram_match, DefaultSpecs[k])
          [] k = "storage" -> IntSpec(storage_match, DefaultSpecs[k])
          [] k = "camera_mp" -> IntSpec(camera_match, DefaultSpecs[k])
          [] k = "battery_mah" -> IntSpec(battery_match, DefaultSpecs[k])
          [] k = "display_inches" -> display.v
          [] OTHER -> DefaultSpecs[k]]]

\* the searches of lines 395-415 on features_text
RegexSpecs(features_text) ==
    SpecsFrom(
        Search(features_text, "digit", {<<<<"g", "b">>, <<"r", "a", "m">>>>}),
        Search(features_text, "digit",
               {<<<<"g", "b">>, <<"r", "o", "m">>>>,
                <<<<"g", "b">>, <<"s", "t", "o", "r", "a", "g", "e">>>>}),
        Search(features_text, "digit", {<<<<"m", "p">>>>}),
        Search(features_text, "digit", {<<<<"m", "a", "h">>>>}),
        FloatSpec(Search(features_text, "digitdot",
                         {<<<<"i", "n", "c", "h">>>>, <<<<"\"">>>>}),
                  DefaultSpecs["display_inches"]))

\* _extract_specs_regex(features): [ok, specs]; ok is FALSE when float() of
\* line 417 raises
extract_specs_regex(features) ==
    RegexSpecs(JoinSpace(features))

\* What the text-understanding service answers for one listing:
\*   kind "fail"  : no model, an exception, or text json.loads rejects;
\*   kind "dict"  : a JSON object, specs holding its six keys (Absent: no key);
\*   kind "other" : JSON that is not an object (a list, a number, a string).
AiFail ==
    [kind |-> "fail", specs |-> DefaultSpecs]

\* _extract_specs_with_ai(name, features) given the service's answer ai:
\* [ok, isDict, specs], lines 350-379
extract_specs_with_ai(features, ai) ==
    IF features = <<>> \/ ai.kind = "fail"
    THEN [isDict |-> TRUE] @@ extract_specs_regex(features)
    ELSE [ok |-> TRUE, isDict |-> ai.kind = "dict", specs |-> ai.specs]

\* the thresholds taken as belonging to the lower category
CategoryUpTo(price) ==
    IF price <= BudgetBelow THEN Budget
    ELSE IF price <= MidRangeBelow THEN MidRange
    ELSE Flagship

\* _categorize_phone(price), lines 421-428
categorize_phone(price) ==
    IF price < BudgetBelow THEN Budget
    ELSE IF price < MidRangeBelow THEN MidRange
    ELSE Flagship

\* the digit run of line 310 as a price: int(group), or 0
PriceOf(match) ==
    IF match.found THEN DigitsToInt(match.group) ELSE 0

\* price of lines 309-310
ParsePrice(price) ==
    PriceOf(Search(RemoveChar(RemoveChar(price, "Rs"), ","), "digit", {<<>>}))

\* the run of line 319 as a rating: float(group), or 0.0
RatingOf(match) ==
    IF match.found THEN FloatOfText(match.group) ELSE [ok |-> TRUE, n |-> 0]

\* rating of lines 318-319: [ok, n] in tenths; ok is FALSE when float() raises
ParseRating(rating_text) ==
    RatingOf(Search(rating_text, "digitdot", {<<>>}))

\* the processor expression of line 336
ProcessorOf(name, words, specs) ==
    IF Get(specs, "processor", PyNone) # PyStr(Unknown)
    THEN Get(specs, "processor", PyStr(Unknown))
    ELSE IF \E w \in chipset_words : Contains(name, w)
         THEN PyStr(words[Len(words)])
         ELSE PyStr(Unknown)

\* the filters without the accessory test of lines 295-297
PassesWithoutExclude(product_name, price) ==
    /\ \E keyword \in phone_keywords : Contains(product_name, keyword)
    /\ ~(price < MinPrice \/ price > MaxPrice)

\* the listing passes the filters of lines 295-315
PassesFilters(product_name, price) ==
    /\ ~\E keyword \in exclude_keywords : Contains(product_name, keyword)
    /\ \E keyword \in phone_keywords : Contains(product_name, keyword)
    /\ ~(price < MinPrice \/ price > MaxPrice)

\* the dict of lines 325-341
StructuredPhone(prod, words, price, rating, specs) ==
    With(EmptyDict,
        [full_name |-> PyStr(prod.name),
         brand |-> PyStr(IF prod.name # NA THEN words[1] ELSE Unknown),
         model |-> PyStr(IF prod.name # NA THEN JoinSpace(Tail(words))
                         ELSE Unknown),
         price |-> PyInt(price),
         rating |-> PyFloat(rating),
         ram |-> Get(specs, "ram", PyInt(4)),
         storage |-> Get(specs, "storage", PyInt(64)),
         camera_mp |-> Get(specs, "camera_mp", PyInt(12)),
         battery_mah |-> Get(specs, "battery_mah", PyInt(4000)),
         display_inches |-> Get(specs, "display_inches", PyFloat(65)),
         processor |-> ProcessorOf(prod.name, words, specs),
         category |-> PyStr(categorize_phone(price)),
         source |-> PyStr(Flipkart),
         url |-> PyStr(prod.url),
         description |-> PyStr(prod.description)])

\* one iteration of lines 291-344 from its parts: [kept, phone].  The
\* listing is dropped by a filter, by an exception (rating.ok or specs.ok
\* FALSE, or specs no dict at line 331), or by line 324.
StructureFrom(prod, price, rating, specs) ==
    IF /\ PassesFilters(Lower(prod.name), price)
       /\ rating.ok
       /\ specs.ok
       /\ price > 0
       /\ specs.isDict
    THEN [kept |-> TRUE,
          phone |-> StructuredPhone(prod, Split(prod.name), price, rating.n,
                                    specs.specs)]
    ELSE [kept |-> FALSE, phone |-> EmptyDict]

\* one iteration of the loop of lines 290-344 on listing prod with the
\* service's answer ai: [kept, phone]
StructureOne(prod, ai) ==
    StructureFrom(prod, ParsePrice(prod.price), ParseRating(prod.rating),
                  extract_specs_with_ai(prod.features, ai))

\* the dicts appended when the first listing that is not kept ends the loop
KeptUntilFirstDrop(ones) ==
    SubSeq(ones, 1,
           Cardinality({i \in 1..Len(ones) : \A j \in 1..i : ones[j].kept}))

\* the dicts appended for the listings of raw_products
KeptPhones(ones) ==
    SelectSeq(ones, LAMBDA one : one.kept)

\* the phone dicts of the iterations that appended one
PhonesOf(ones) ==
    [i \in 1..Len(ones) |-> ones[i].phone]

\* _structure_flipkart_data(raw_products), lines 281-346; ais[i] is the
\* service's answer for raw_products[i]
structure_flipkart_data(raw_products, ais) ==
    PhonesOf(KeptPhones([j \in 1..Len(raw_products) |->
                            StructureOne(raw_products[j], ais[j])]))

(* ------------------------ PhoneCache.search_in_cache ------------------- *)
\* A distance d is the integer d * DistScale; a score is in hundredths.
DistScale == 100000

PyDist(k) == [t |-> "dist", n |-> k, s |-> <<>>]
PyScore(c) == [t |-> "score", n |-> c, s |-> <<>>]

\* round(a / b) for b > 0, ties to even, as Python's round
RoundDiv(a, b) ==
    LET q == a \div b
        r == a % b
    IN  IF 2 * r < b THEN q
        ELSE IF 2 * r > b THEN q + 1
        ELSE IF q % 2 = 0 THEN q ELSE q + 1

\* the difference taken as it is
NoClamp(x) ==
    x

\* max(0.0, x)
Max0(x) ==
    IF x > 0 THEN x ELSE 0

\* score of line 112: round(max(0.0, 1.0 - distance) * 100.0, 2), in hundredths
Score(k) ==
    RoundDiv(Max0(DistScale - k) * 100 * 100, DistScale)

\* i comes before j in the nearest-neighbour order: by distance, then by
\* insertion order
Nearer(dist, i, j) ==
    dist[i] < dist[j] \/ (dist[i] = dist[j] /\ i < j)

\* the indices of the n nearest entries, nearest first
Nearest(dist, n) ==
    LET rank(i) == Cardinality({j \in DOMAIN dist : Nearer(dist, j, i)}) + 1
    IN  [r \in 1..n |-> CHOOSE i \in DOMAIN dist : rank(i) = r]

\* every record is asked for, whatever the limit
AllResults(limit, count) ==
    count

\* min(limit, count), line 78
NResults(limit, count) ==
    IF limit < count THEN limit ELSE count

\* the row of lines 106-118 for a result
ResultRow(metadata, distance) ==
    With(metadata, [_distance |-> PyDist(distance),
                    _score |-> PyScore(Score(distance))])

\* a search that keeps only the results nearer than distance 1
SearchNearOnly(coll, limit, dist, queryFails) ==
    LET n_results == NResults(limit, Count(coll))
    IN  IF queryFails \/ n_results <= 0
        THEN [raised |-> TRUE, rows |-> <<>>, queried |-> TRUE,
              n_results |-> n_results, failed |-> queryFails]
        ELSE LET ids == Nearest(dist, n_results)
             IN  [raised |-> FALSE, failed |-> FALSE,
                  rows |-> SelectSeq(
                               [r \in 1..n_results |->
                                   ResultRow(coll[ids[r]].metadata, dist[ids[r]])],
                               LAMBDA row : row["_distance"].n < DistScale),
                  queried |-> TRUE,
                  n_results |-> n_results]

\* lines 78-121 of search_in_cache: [raised, rows, queried, n_results,
\* failed].  dist[i] is the distance of entry i from the query; queryFails:
\* the Store is unavailable, collection.query raises on both attempts, which
\* failed records.  The library also raises when asked for no result.
SearchBlock(coll, limit, dist, queryFails) ==
    LET n_results == NResults(limit, Count(coll))
    IN  IF queryFails \/ n_results <= 0
        THEN [raised |-> TRUE, rows |-> <<>>, queried |-> TRUE,
              n_results |-> n_results, failed |-> queryFails]
        ELSE LET ids == Nearest(dist, n_results)
             IN  [raised |-> FALSE, failed |-> FALSE,
                  rows |-> [r \in 1..n_results |->
                               ResultRow(coll[ids[r]].metadata, dist[ids[r]])],
                  queried |-> TRUE,
                  n_results |-> n_results]

\* the handler of lines 123-125 returns []
SearchFailed(block) ==
    [block EXCEPT !.raised = FALSE, !.rows = <<>>]

\* the search without the test of lines 73-76
SearchWithoutEmptyTest(coll, limit, dist, queryFails) ==
    Try(SearchBlock(coll, limit, dist, queryFails),
        SearchFailed(SearchBlock(coll, limit, dist, queryFails)))

\* search_in_cache(query, limit) on collection coll, lines 72-125:
\* [raised, rows, queried, n_results, failed]
SearchInCache(coll, limit, dist, queryFails) ==
    IF Count(coll) = 0
    THEN [raised |-> FALSE, rows |-> <<>>, queried |-> FALSE, n_results |-> 0,
          failed |-> FALSE]
    ELSE Try(SearchBlock(coll, limit, dist, queryFails),
             SearchFailed(SearchBlock(coll, limit, dist, queryFails)))

\* get_all_cached_phones(), lines 225-245: [raised, rows], rows being those
\* of the DataFrame.  getFails: collection.count or collection.get raises,
\* and line 245 returns an empty DataFrame.
GetAllCachedPhones(coll, getFails) ==
    Try([raised |-> getFails, rows |-> [i \in 1..Len(coll) |-> coll[i].metadata]],
        [raised |-> FALSE, rows |-> <<>>])

\* bulk_ingest_from_file(file_path), lines 257-275: [coll, ret].
\* A file is [kind, data]: kind "missing" (no such file), "invalid" (not
\* JSON), "notlist" (JSON that is no list) or "list" (data: its phone dicts).
BulkIngest(coll, file, lib) ==
    Try(IF file.kind = "invalid"
        THEN [raised |-> TRUE, coll |-> coll, ret |-> 0]
        ELSE IF file.kind # "list"
             THEN [raised |-> FALSE, coll |-> coll, ret |-> 0]
        ELSE AddPhones(coll, file.data, lib),
        [raised |-> FALSE, coll |-> coll, ret |-> 0])

(* ----------------------- PhoneCache.get_cache_stats -------------------- *)
\* the characters of names, in the order of their code points, by which
\* Python compares strings
CharOrder ==
    <<" ", "-", ".", "/", "0", "1", "2", "3", "4", "5", "6", "7",
      "8", "9", ":", "A", "B", "C", "D", "E", "F", "G", "H", "I",
      "J", "K", "L", "M", "N", "O", "P", "Q", "R", "S", "T", "U",
      "V", "W", "X", "Y", "Z", "_", "a", "b", "c", "d", "e", "f",
      "g", "h", "i", "j", "k", "l", "m", "n", "o", "p", "q", "r",
      "s", "t", "u", "v", "w", "x", "y", "z">>

CodePointRank(c) ==
    CHOOSE i \in 1..Len(CharOrder) : CharOrder[i] = c

RECURSIVE StrLess(_, _)
\* a < b for two str
StrLess(a, b) ==
    IF b = <<>> THEN FALSE
    ELSE IF a = <<>> THEN TRUE
    ELSE IF a[1] = b[1] THEN StrLess(Tail(a), Tail(b))
    ELSE CodePointRank(a[1]) < CodePointRank(b[1])

\* the distinct strings S from the greatest down
SortedDescending(S) ==
    [r \in 1..Cardinality(S) |->
        CHOOSE t \in S : Cardinality({u \in S : StrLess(t, u)}) = r - 1]

\* sorted(...) of the distinct strings S
SortedStrs(S) ==
    [r \in 1..Cardinality(S) |->
        CHOOSE t \in S : Cardinality({u \in S : StrLess(u, t)}) = r - 1]

\* the least and the greatest of a non-empty set of numbers
MinOf(S) == CHOOSE x \in S : \A y \in S : x <= y
MaxOf(S) == CHOOSE x \in S : \A y \in S : y <= x

\* lines 282-287 and 298-302
NoStats ==
    [total_phones |-> 0, brands |-> <<>>, price_range |-> <<0, 0>>]

\* lines 291-295: the dict returned for count records when
\* get_all_cached_phones has returned rows
StatsOf(count, rows) ==
    [total_phones |-> count,
     brands |-> IF rows # <<>>
                THEN SortedStrs({rows[i]["brand"].s : i \in 1..Len(rows)})
                ELSE <<>>,
     price_range |-> IF rows # <<>>
                     THEN <<MinOf({rows[i]["price"].n : i \in 1..Len(rows)}),
                            MaxOf({rows[i]["price"].n : i \in 1..Len(rows)})>>
                     ELSE <<0, 0>>]

\* get_cache_stats(), lines 279-302: [raised, stats].  countFails:
\* collection.count raises at line 280; getFails: the read of
\* get_all_cached_phones raises, which its own handler turns into an empty
\* DataFrame.
GetCacheStats(coll, countFails, getFails) ==
    Try(IF countFails THEN [raised |-> TRUE, stats |-> NoStats]
        ELSE IF Count(coll) = 0 THEN [raised |-> FALSE, stats |-> NoStats]
        ELSE [raised |-> FALSE,
              stats |-> StatsOf(Count(coll),
                                GetAllCachedPhones(coll, getFails).rows)],
        [raised |-> FALSE, stats |-> NoStats])

(* ----------------- DataFetchAgent: enhancer and working set ------------ *)
\* the length bound of line 180
MaxEnhancedLen == 50

RECURSIVE StripChars(_, _)
\* str.strip(chars)
StripChars(s, chars) ==
    IF s = <<>> THEN s
    ELSE IF s[1] \in chars THEN StripChars(Tail(s), chars)
    ELSE IF s[Len(s)] \in chars THEN StripChars(SubSeq(s, 1, Len(s) - 1), chars)
    ELSE s

\* the enhancer without the validation of lines 180-181
EnhanceUnvalidated(query, answer) ==
    IF answer.kind = "fail" \/ query = <<>> THEN query
    ELSE StripChars(StripChars(StripChars(answer.text,
             {" ", "\t", "\n"}), {"\""}), {"'"})

\* _enhance_query_with_ai(query, max_budget), lines 156-189.  answer is what
\* the language model does: kind "fail" (no model, or generate_content
\* raises) or kind "text" with its text.
enhance_query_with_ai(query, answer) ==
    IF answer.kind = "fail" \/ query = <<>> THEN query
    ELSE LET enhanced == StripChars(StripChars(StripChars(answer.text,
                             {" ", "\t", "\n"}), {"\""}), {"'"})
         IN  IF Len(enhanced) > MaxEnhancedLen \/ enhanced = <<>>
             THEN query
             ELSE enhanced

\* of the rows of one full_name the first is kept
DropDuplicatesKeepFirst(rows) ==
    LET keep == {i \in 1..Len(rows) :
                    \A j \in 1..(i - 1) :
                        rows[j]["full_name"] # rows[i]["full_name"]}
        nth(r) == CHOOSE i \in keep : Cardinality({j \in keep : j < i}) = r - 1
    IN  [r \in 1..Cardinality(keep) |-> rows[nth(r)]]

\* DataFrame.drop_duplicates(subset=['full_name'], keep='last')
DropDuplicates(rows) ==
    LET keep == {i \in 1..Len(rows) :
                    \A j \in (i + 1)..Len(rows) :
                        rows[j]["full_name"] # rows[i]["full_name"]}
        nth(r) == CHOOSE i \in keep : Cardinality({j \in keep : j < i}) = r - 1
    IN  [r \in 1..Cardinality(keep) |-> rows[nth(r)]]

\* drop_duplicates raises KeyError when the frame has rows and none of them
\* has the column full_name
MergeRaises(database, df) ==
    /\ database \o df # <<>>
    /\ \A i \in 1..Len(database \o df) : (database \o df)[i]["full_name"] = Absent

\* lines 85-86 and 109-110: concat, then drop duplicates
MergeInto(database, df) ==
    DropDuplicates(database \o df)

\* lines 85-86 and 109-110 as statements: [raised, database]; line 85 has
\* assigned when line 86 raises
MergeBlock(database, df) ==
    IF MergeRaises(database, df)
    THEN [raised |-> TRUE, database |-> database \o df]
    ELSE [raised |-> FALSE, database |-> MergeInto(database, df)]

\* lines 82-88 on a hit, merged being what lines 85-86 did:
\* [raised, database, df].  No handler encloses these lines.
HitOutcome(search, merged) ==
    [raised |-> search.raised \/ merged.raised,
     database |-> merged.database,
     df |-> search.rows]

\* a miss that empties the working set
LookupForgetting(search, database) ==
    IF search.rows = <<>>
    THEN [raised |-> search.raised, database |-> <<>>, df |-> <<>>]
    ELSE HitOutcome(search, MergeBlock(database, search.rows))

\* lines 78-88 once the search has returned search: [raised, database, df]
LookupOutcome(search, database) ==
    IF search.rows = <<>>
    THEN [raised |-> search.raised, database |-> database, df |-> <<>>]
    ELSE HitOutcome(search, MergeBlock(database, search.rows))

\* lines 108-112, merged being what lines 109-110 did
StoredOutcome(merged, scraped_data) ==
    [raised |-> merged.raised, database |-> merged.database,
     df |-> scraped_data]

\* lines 101-112 once add_phones has returned add: [raised, database, df]
StoreBlock(add, database, scraped_data) ==
    IF add.raised
    THEN [raised |-> TRUE, database |-> database, df |-> <<>>]
    ELSE StoredOutcome(MergeBlock(database, scraped_data), scraped_data)

\* the handler of lines 117-119 returns an empty DataFrame
StoreFailed(block) ==
    [block EXCEPT !.raised = FALSE, !.df = <<>>]

\* lines 95-119 once add_phones has returned add
StoreOutcome(add, database, scraped_data) ==
    Try(StoreBlock(add, database, scraped_data),
        StoreFailed(StoreBlock(add, database, scraped_data)))

RECURSIVE ProductLinks(_, _, _)
\* the product links scrape_flipkart follows, lines 238-250: a link already
\* seen is skipped, and the loop stops once len(product_links) >=
\* max_products, which is tested after each append
ProductLinks(links, max_products, product_links) ==
    IF links = <<>> THEN product_links
    ELSE IF \E i \in 1..Len(product_links) : product_links[i].url = Head(links).url
         THEN ProductLinks(Tail(links), max_products, product_links)
    ELSE IF Len(product_links) + 1 >= max_products
         THEN Append(product_links, Head(links))
    ELSE ProductLinks(Tail(links), max_products, Append(product_links, Head(links)))

\* how a scrape can fail: not at all; "inside" the try of lines 208-276 (the
\* browser or a page raises), where line 276 returns []; or "outside" it
\* (lines 166-206, or driver.quit() in the finally clause), which raises to
\* the caller
ScrapeFaults ==
    {"no", "inside", "outside"}

\* scrape_flipkart(query, max_products), lines 166-279: [raised, rows], rows
\* being the structured phones.  links are the pages the search shows, ais
\* the service's answers.
scrape_flipkart(links, max_products, ais, scrapeFails) ==
    IF scrapeFails = "outside" THEN [raised |-> TRUE, rows |-> <<>>]
    ELSE Try(IF scrapeFails = "inside" THEN [raised |-> TRUE, rows |-> <<>>]
             ELSE [raised |-> FALSE,
                   rows |-> structure_flipkart_data(
                                ProductLinks(links, max_products, <<>>), ais)],
             [raised |-> FALSE, rows |-> <<>>])

\* lines 95-97 once scrape_flipkart has ended as scrape; the handler of lines
\* 117-119 returns an empty DataFrame
FetchOutcome(scrape) ==
    Try(scrape, [raised |-> FALSE, rows |-> <<>>])

(* ------------------------------ inputs --------------------------------- *)
\* the sequences over S of length at most n
SeqsUpTo(S, n) ==
    UNION {[1..k -> S] : k \in 0..n}

VivoY1 ==
    <<"V", "i", "v", "o", " ", "Y", "1">>

PocoX ==
    <<"P", "o", "c", "o", " ", "X">>

VivoCase ==
    <<"V", "i", "v", "o", " ", "C", "a", "s", "e">>

vivo_y1 ==
    <<"v", "i", "v", "o", "_", "y", "1">>

Url1 ==
    <<"u", "/", "1">>

Url2 ==
    <<"u", "/", "2">>

Url3 ==
    <<"u", "/", "3">>

UrlColon1 ==
    <<"u", ":", "1">>

Rs9999 ==
    <<"Rs", "9", ",", "9", "9", "9">>

Rs10999 ==
    <<"Rs", "1", "0", ",", "9", "9", "9">>

Rs45999 ==
    <<"Rs", "4", "5", ",", "9", "9", "9">>

Rating43 ==
    <<"4", ".", "3">>

Feat8GbRam ==
    <<"8", "G", "B", " ", "R", "A", "M">>

Feat65Inch ==
    <<"6", ".", "5", " ", "i", "n", "c", "h">>

Txt8GB ==
    <<"8", "G", "B">>

QGaming ==
    <<"g", "a", "m", "i", "n", "g">>

QGamingPhone ==
    <<" ", "\"", "g", "a", "m", "i", "n", "g", " ", "p", "h", "o", "n", "e", "\"", " ">>

\* what a product page yields (scrape_flipkart_product_details, lines 145-152)
RawVivo ==
    [name |-> VivoY1, price |-> Rs9999, rating |-> Rating43,
     features |-> <<Feat8GbRam>>, description |-> NA, url |-> Url1]

\* the same page later, at a new price and with no feature list
RawVivoAgain ==
    [name |-> VivoY1, price |-> Rs10999, rating |-> Rating43,
     features |-> <<>>, description |-> NA, url |-> Url1]

RawPoco ==
    [name |-> PocoX, price |-> Rs45999, rating |-> NA,
     features |-> <<Feat65Inch>>, description |-> NA, url |-> Url2]

\* an accessory
RawCase ==
    [name |-> VivoCase, price |-> Rs9999, rating |-> Rating43,
     features |-> <<>>, description |-> NA, url |-> Url3]

\* a page whose price was not found
RawNoPrice ==
    [name |-> PocoX, price |-> NA, rating |-> NA,
     features |-> <<>>, description |-> NA, url |-> Url3]

RawListings ==
    {RawVivo, RawVivoAgain, RawPoco, RawCase, RawNoPrice}

\* another page that sells a phone of RawPoco's name
RawPocoElsewhere ==
    [name |-> PocoX, price |-> Rs10999, rating |-> NA,
     features |-> <<>>, description |-> NA, url |-> Url3]

\* the pages a Flipkart search shows
SearchPages ==
    {RawVivo, RawVivoAgain, RawPoco, RawCase}

\* a JSON object whose ram is the text "8GB" and that has no other key
AiBadRam ==
    [kind |-> "dict",
     specs |-> [k \in SpecKeys |-> IF k = "ram" THEN PyStr(Txt8GB) ELSE Absent]]

AiAnswers ==
    {AiFail, AiBadRam}

Tab9 ==
    <<"T", "a", "b", " ", "9">>

Rs4999 ==
    <<"Rs", "4", ",", "9", "9", "9">>

Rs5000 ==
    <<"Rs", "5", ",", "0", "0", "0">>

Rs200000 ==
    <<"Rs", "2", ",", "0", "0", ",", "0", "0", "0">>

Rs200001 ==
    <<"Rs", "2", ",", "0", "0", ",", "0", "0", "1">>

Rating431 ==
    <<"4", ".", "3", ".", "1">>

SnapdragonText ==
    <<"S", "n", "a", "p", "d", "r", "a", "g", "o", "n">>

\* a page whose rating text holds a run float() rejects
RawBadRating ==
    [name |-> PocoX, price |-> Rs45999, rating |-> Rating431,
     features |-> <<>>, description |-> NA, url |-> Url2]

\* a page that is no phone by its name
RawTablet ==
    [name |-> Tab9, price |-> Rs9999, rating |-> Rating43,
     features |-> <<>>, description |-> NA, url |-> Url3]

\* the page of PocoX at price
RawPocoAt(price) ==
    [name |-> PocoX, price |-> price, rating |-> NA,
     features |-> <<>>, description |-> NA, url |-> Url2]

\* the pages a product loop can collect (lines 256-268)
ProductPages ==
    RawListings \cup {RawBadRating, RawTablet}
    \cup {RawPocoAt(price) : price \in {Rs4999, Rs5000, Rs200000, Rs200001}}

\* JSON that is no object, such as a list
AiNotObject ==
    [kind |-> "other", specs |-> DefaultSpecs]

\* a JSON object with the six keys
AiSixFields ==
    [kind |-> "dict",
     specs |-> [k \in SpecKeys |->
        CASE k = "ram" -> PyInt(12)
          [] k = "storage" -> PyInt(256)
          [] k = "camera_mp" -> PyInt(108)
          [] k = "battery_mah" -> PyInt(4500)
          [] k = "display_inches" -> PyFloat(67)
          [] OTHER -> PyStr(SnapdragonText)]]

\* a JSON object that gives the camera as 12.2
AiFloatCamera ==
    [kind |-> "dict",
     specs |-> [k \in SpecKeys |->
                   IF k = "camera_mp" THEN PyFloat(122) ELSE Absent]]

\* what the service can answer for a listing; it is asked only when the
\* listing has features (line 350)
ServiceAnswers(prod) ==
    IF prod.features = <<>> THEN {AiFail}
    ELSE {AiFail, AiBadRam, AiNotObject, AiSixFields, AiFloatCamera}

PhoneVivo == StructureOne(RawVivo, AiFail).phone
PhoneVivoAgain == StructureOne(RawVivoAgain, AiFail).phone
PhonePoco == StructureOne(RawPoco, AiFail).phone
PhonePocoElsewhere == StructureOne(RawPocoElsewhere, AiFail).phone
\* the normalizer's output for RawVivo when the service answers AiBadRam
PhoneBadRam == StructureOne(RawVivo, AiBadRam).phone

\* a dict written by hand: no price, and a name and url that differ from
\* PhoneVivo's only in case and punctuation
PhoneNoPrice ==
    With(EmptyDict, [full_name |-> PyStr(vivo_y1), url |-> PyStr(UrlColon1)])

\* the dicts handed to add_phones
CachePhones ==
    {PhoneVivo, PhonePoco, PhoneBadRam, PhoneNoPrice}

\* the lists handed to add_phones: no record twice, though PhoneVivo and
\* PhoneNoPrice in one list repeat an id
PhoneLists ==
    {l \in SeqsUpTo(CachePhones, MaxBatch) :
        \A i, j \in 1..Len(l) : i # j => l[i] # l[j]}

\* the files handed to bulk_ingest_from_file
Files ==
    [kind : {"missing", "invalid", "notlist"}, data : {<<>>}]
    \cup [kind : {"list"},
          data : {<<>>, <<PhoneNoPrice>>, <<PhonePoco, PhoneVivoAgain>>}]

\* the distances the nearest-neighbour query reports
DistVals ==
    {0, 150000}

\* the distance functions possible for a query: a document equal to the
\* query is at distance 0 (the embedding is a function of the text)
Distances(coll, query) ==
    {dist \in [1..Len(coll) -> DistVals] :
        \A i \in 1..Len(coll) : coll[i].document = query => dist[i] = 0}

Queries ==
    {QGaming, DocOf(PhonePoco)}

\* what the language model answers to the enhancer
EnhancerAnswers ==
    {[kind |-> "fail", text |-> <<>>],
     [kind |-> "text", text |-> QGamingPhone],
     [kind |-> "text", text |-> [i \in 1..(MaxEnhancedLen + 1) |-> "a"]]}


Limits ==
    0..MaxLimit

\* what scrape_flipkart can return for max_products when nothing raises
ScrapeResults ==
    [max_products \in Limits |->
        UNION {{scrape_flipkart(links, max_products, ais, "no").rows :
                    ais \in [1..Len(ProductLinks(links, max_products, <<>>))
                               -> AiAnswers]} :
               links \in SeqsUpTo(SearchPages, MaxBatch)}]

(* ------------------------------- state --------------------------------- *)
VARIABLES
    collection,      \* the "phone_cache" collection in the persist directory
    phone_database,  \* DataFetchAgent.phone_database, the rows of the DataFrame
    pc,              \* where scrape_live_phones stands; "idle" between calls
    call,            \* the locals of the running scrape_live_phones call
    last             \* the operation last called on a component by itself:
                     \* its arguments, the collection it found and its result

vars == <<collection, phone_database, pc, call, last>>

\* the locals before a call; trace lists the steps taken, scrapes, lookups
\* and writes count the scraper calls, cache searches and add_phones calls,
\* raised says that the call has ended by raising to its caller, failed that
\* the Store's search raised during the call
NoCall ==
    [max_phones |-> 0, enhanced_query |-> <<>>, cached_phones |-> <<>>,
     scraped_data |-> <<>>, df |-> <<>>, scrapes |-> 0, lookups |-> 0,
     writes |-> 0, trace |-> <<>>, raised |-> FALSE, failed |-> FALSE]

\* before is the collection the operation found; repeat says that an
\* add_phones call has the arguments of the add_phones call just before it;
\* raised says that the operation raised to its caller, failed that a call
\* it made to the library raised
NoOp ==
    [op |-> "init", phones |-> <<>>, limit |-> 0, ret |-> 0, rows |-> <<>>,
     queried |-> FALSE, n_results |-> 0, before |-> <<>>, dist |-> <<>>,
     repeat |-> FALSE, raw |-> <<>>, ais |-> <<>>, done |-> FALSE,
     price |-> 0, text |-> <<>>, query |-> <<>>,
     answer |-> [kind |-> "fail", text |-> <<>>], raised |-> FALSE,
     stats |-> NoStats, failed |-> FALSE]

\* a fresh persist directory, and the process just started on it
Init ==
    /\ collection = <<>>
    /\ phone_database = <<>>
    /\ pc = "idle"
    /\ call = NoCall
    /\ last = NoOp

(* --------------------------- PhoneCache calls -------------------------- *)
\* PhoneCache.__init__, lines 27-59, on the existing persist directory.
\* deleteFails: list_collections or delete_collection raises, which the
\* bare excepts of lines 47-50 swallow.
CollectionAfterInit(coll, deleteFails) ==
    IF deleteFails THEN coll ELSE <<>>

Construct ==
    /\ pc = "idle"
    /\ \E deleteFails \in BOOLEAN :
            collection' = CollectionAfterInit(collection, deleteFails)
    /\ last' = [NoOp EXCEPT !.before = collection]
    /\ UNCHANGED <<phone_database, pc, call>>

\* op(phones) has returned r
Wrote(op, phones, r) ==
    /\ collection' = r.coll
    /\ last' = [NoOp EXCEPT !.op = op, !.phones = phones,
                            !.ret = r.ret, !.before = collection,
                            !.raised = r.raised,
                            !.repeat = (op = "add_phones" /\ last.op = op
                                        /\ last.phones = phones)]

CallAddPhones ==
    /\ pc = "idle"
    /\ \E phones \in PhoneLists, lib \in LibModes :
        Wrote("add_phones", phones, AddPhones(collection, phones, lib))
    /\ UNCHANGED <<phone_database, pc, call>>

CallBulkIngest ==
    /\ pc = "idle"
    /\ \E file \in Files, lib \in LibModes :
        Wrote("bulk_ingest_from_file", file.data,
              BulkIngest(collection, file, lib))
    /\ UNCHANGED <<phone_database, pc, call>>

CallSearchInCache ==
    /\ pc = "idle"
    /\ \E query \in Queries, limit \in Limits, queryFails \in BOOLEAN :
        \E dist \in IF queryFails THEN {[i \in 1..Len(collection) |-> 0]}
                     ELSE Distances(collection, query) :
            LET r == SearchInCache(collection, limit, dist, queryFails)
            IN  last' = [NoOp EXCEPT !.op = "search_in_cache", !.limit = limit,
                                     !.rows = r.rows, !.queried = r.queried,
                                     !.n_results = r.n_results,
                                     !.raised = r.raised,
                                     !.failed = r.failed,
                                     !.before = collection, !.dist = dist]
    /\ UNCHANGED <<collection, phone_database, pc, call>>

CallGetAll ==
    /\ pc = "idle"
    /\ \E getFails \in BOOLEAN :
        LET r == GetAllCachedPhones(collection, getFails)
        IN  last' = [NoOp EXCEPT !.op = "get_all_cached_phones",
                                !.rows = r.rows, !.raised = r.raised,
                                !.before = collection]
    /\ UNCHANGED <<collection, phone_database, pc, call>>

CallGetStats ==
    /\ pc = "idle"
    /\ \E countFails \in BOOLEAN, getFails \in BOOLEAN :
        LET r == GetCacheStats(collection, countFails, getFails)
        IN  last' = [NoOp EXCEPT !.op = "get_cache_stats",
                                !.stats = r.stats, !.raised = r.raised,
                                !.failed = countFails \/ getFails,
                                !.before = collection]
    /\ UNCHANGED <<collection, phone_database, pc, call>>

\* a PhoneCache used on its own
NextCache ==
    \/ Construct
    \/ CallAddPhones
    \/ CallBulkIngest
    \/ CallSearchInCache
    \/ CallGetAll
    \/ CallGetStats

SpecCache == Init /\ [][NextCache]_vars

(* ------------------- searches over a grid of distances ----------------- *)
\* the distances tried are the multiples of DistStep up to MaxDistSteps steps
MaxDistSteps == 200
DistStep == 997

\* a store holding one record, as add_phones([PhonePoco]) leaves it
InitScore ==
    /\ collection = AddPhones(<<>>, <<PhonePoco>>,
                              [get |-> "raise", dup |-> "raise"]).coll
    /\ phone_database = <<>>
    /\ pc = "idle"
    /\ call = NoCall
    /\ last = NoOp

\* search_in_cache when the query reports distance k * DistStep
CallSearchAtDistance ==
    /\ pc = "idle"
    /\ \E limit \in 1..MaxLimit, k \in 0..MaxDistSteps :
        LET dist == [i \in 1..Len(collection) |-> k * DistStep]
            r == SearchInCache(collection, limit, dist, FALSE)
        IN  last' = [NoOp EXCEPT !.op = "search_in_cache", !.limit = limit,
                                 !.rows = r.rows, !.queried = r.queried,
                                 !.n_results = r.n_results,
                                 !.before = collection, !.dist = dist]
    /\ UNCHANGED <<collection, phone_database, pc, call>>

SpecScore == InitScore /\ [][CallSearchAtDistance]_vars

(* ------------------ the scraper and the enhancer alone ----------------- *)
\* the prices _categorize_phone is tried on lie within MaxDelta of a threshold
MaxDelta == 12

Prices ==
    {base + delta : base \in {0, MinPrice, BudgetBelow, MidRangeBelow, MaxPrice},
                    delta \in (0 - MaxDelta)..MaxDelta}

SixWords ==
    <<"a", " ", "b", " ", "c", " ", "d", " ", "e", " ", "f">>

\* the raw queries handed to the enhancer
RawQueries ==
    {<<>>, QGaming, SixWords}

\* what the language model answers to the enhancer, with texts that are
\* empty, blank, quoted, of several words, and of MaxEnhancedLen characters
\* and one more
EnhancerTexts ==
    EnhancerAnswers
    \cup [kind : {"text"},
          text : {<<>>, <<" ", " ">>, <<"\"", " ", "\"">>, SixWords,
                  <<" ">> \o [i \in 1..MaxEnhancedLen |-> "a"] \o <<" ">>,
                  <<"'">> \o QGaming \o <<"'">>}]

\* the product loop of scrape_flipkart, lines 258-266: one more page is
\* read; ai is what the service will answer for it at line 322
ScrapeProduct ==
    /\ pc = "idle"
    /\ last.op \in {"init", "scrape_flipkart"}
    /\ ~last.done
    /\ Len(last.raw) < MaxBatch
    /\ \E prod \in ProductPages :
        \E ai \in ServiceAnswers(prod) :
            last' = [last EXCEPT !.op = "scrape_flipkart",
                                 !.raw = Append(@, prod),
                                 !.ais = Append(@, ai)]
    /\ UNCHANGED <<collection, phone_database, pc, call>>

\* lines 271-272: the pages read are structured, and the result returned
StructureData ==
    /\ pc = "idle"
    /\ last.op \in {"init", "scrape_flipkart"}
    /\ ~last.done
    /\ last' = [last EXCEPT !.op = "scrape_flipkart",
                            !.done = TRUE,
                            !.rows = structure_flipkart_data(last.raw, last.ais)]
    /\ UNCHANGED <<collection, phone_database, pc, call>>

\* _categorize_phone(price)
CallCategorize ==
    /\ pc = "idle"
    /\ last.op = "init"
    /\ \E price \in Prices :
        last' = [NoOp EXCEPT !.op = "_categorize_phone", !.done = TRUE,
                             !.price = price,
                             !.text = categorize_phone(price)]
    /\ UNCHANGED <<collection, phone_database, pc, call>>

\* _enhance_query_with_ai(query, max_budget); max_budget only words the prompt
CallEnhance ==
    /\ pc = "idle"
    /\ last.op = "init"
    /\ \E query \in RawQueries, answer \in EnhancerTexts :
        last' = [NoOp EXCEPT !.op = "_enhance_query_with_ai", !.done = TRUE,
                             !.query = query, !.answer = answer,
                             !.text = enhance_query_with_ai(query, answer)]
    /\ UNCHANGED <<collection, phone_database, pc, call>>

\* the caller has the result, and may call again
PartReturn ==
    /\ pc = "idle"
    /\ last.done
    /\ last' = NoOp
    /\ UNCHANGED <<collection, phone_database, pc, call>>

NextParts ==
    \/ ScrapeProduct
    \/ StructureData
    \/ CallCategorize
    \/ CallEnhance
    \/ PartReturn

SpecParts == Init /\ [][NextParts]_vars

(* ------------------- a normalized record, stored and read -------------- *)
\* line 105 of fetch_data.py for one record: a listing is structured, and
\* the record, if the listing is kept, handed to add_phones while the Store
\* holds fewer than MaxBatch records
AddNormalized ==
    /\ pc = "idle"
    /\ last.op = "init"
    /\ Len(collection) < MaxBatch
    /\ \E prod \in ProductPages, lib \in LibModes :
        \E ai \in ServiceAnswers(prod) :
            /\ StructureOne(prod, ai).kept
            /\ Wrote("add_phones", <<StructureOne(prod, ai).phone>>,
                     AddPhones(collection, <<StructureOne(prod, ai).phone>>,
                               lib))
    /\ UNCHANGED <<phone_database, pc, call>>

\* get_all_cached_phones() after the add_phones call
ReadBack ==
    /\ pc = "idle"
    /\ last.op = "add_phones"
    /\ last' = [last EXCEPT !.op = "get_all_cached_phones", !.done = TRUE,
                            !.rows = GetAllCachedPhones(collection, FALSE).rows]
    /\ UNCHANGED <<collection, phone_database, pc, call>>

NextRound ==
    \/ AddNormalized
    \/ ReadBack
    \/ PartReturn

SpecRound == Init /\ [][NextRound]_vars

(* ------------------------ DataFetchAgent calls ------------------------- *)
\* a new process on the same persist directory: PhoneCache.__init__, then
\* DataFetchAgent.__init__ loads the working set, lines 36-45
Restart ==
    /\ pc = "idle"
    /\ \E deleteFails \in BOOLEAN, getFails \in BOOLEAN :
        /\ collection' = CollectionAfterInit(collection, deleteFails)
        /\ phone_database' =
              GetAllCachedPhones(CollectionAfterInit(collection, deleteFails),
                                 getFails).rows
    /\ UNCHANGED <<pc, call, last>>

\* the search is left out
SkipLookup ==
    "FETCHING"

\* line 78: self.cache is set, so the search comes next
AfterEnhance ==
    "CACHE_LOOKUP"

\* the scraper is called whatever the search returned
AlwaysFetch(cached_phones) ==
    "FETCHING"

\* lines 80-90: a non-empty result is returned, an empty one goes on to
\* the scraper
AfterLookup(cached_phones) ==
    IF cached_phones # <<>> THEN "DONE" ELSE "FETCHING"

\* an empty scrape is tried again
RetryFetch(scraped_data) ==
    IF scraped_data # <<>> THEN "STORING" ELSE "FETCHING"

\* lines 100-115: something scraped is stored, nothing scraped ends the call
AfterFetch(scraped_data) ==
    IF scraped_data # <<>> THEN "STORING" ELSE "DONE"

\* scrape_live_phones is called; line 76
Enhance ==
    /\ pc = "idle"
    /\ \E query \in Queries, max_phones \in Limits, answer \in EnhancerAnswers :
        call' = [NoCall EXCEPT !.max_phones = max_phones,
                               !.enhanced_query = enhance_query_with_ai(query, answer),
                               !.trace = <<"ENHANCING">>]
    /\ pc' = AfterEnhance
    /\ UNCHANGED <<collection, phone_database, last>>

\* lines 80-88 with r, what they did with the rows the search returned
Looked(rows, failed, r) ==
    /\ call' = [call EXCEPT !.cached_phones = rows,
                            !.failed = failed,
                            !.df = r.df,
                            !.raised = r.raised,
                            !.lookups = @ + 1,
                            !.trace = Append(@, "CACHE_LOOKUP")]
    /\ phone_database' = r.database
    /\ pc' = AfterLookup(rows)

\* line 79 has returned search
Searched(search) ==
    Looked(search.rows, search.failed,
           LookupOutcome(search, phone_database))

\* lines 78-88: the search, and on a hit the return
CacheLookup ==
    /\ pc = "CACHE_LOOKUP"
    /\ \E queryFails \in BOOLEAN :
        \E dist \in IF queryFails THEN {[i \in 1..Len(collection) |-> 0]}
                   ELSE Distances(collection, call.enhanced_query) :
            Searched(SearchInCache(collection, call.max_phones, dist,
                                   queryFails))
    /\ UNCHANGED <<collection, last>>

\* line 97 has ended as scrape
Fetched(scrapeFails, scrape) ==
    /\ call' = [call EXCEPT
                !.scraped_data = scrape.rows,
                !.raised = scrape.raised,
                !.scrapes = @ + 1,
                !.trace = @ \o (IF scrapeFails # "no" THEN <<"FETCHING">>
                                ELSE <<"FETCHING", "NORMALIZING">>)]
    /\ pc' = AfterFetch(scrape.rows)

\* line 97: the one call of the scraper, which fetches the pages and
\* normalizes them (web_scraper.py, lines 256-272); lines 113-119 on nothing
Fetch ==
    /\ pc = "FETCHING"
    /\ \E scrapeFails \in ScrapeFaults :
        \E scraped_data \in IF scrapeFails = "no"
                           THEN ScrapeResults[call.max_phones]
                           ELSE {<<>>} :
            Fetched(scrapeFails,
                    FetchOutcome(IF scrapeFails = "no"
                                 THEN [raised |-> FALSE, rows |-> scraped_data]
                                 ELSE scrape_flipkart(<<>>, call.max_phones,
                                                      <<>>, scrapeFails)))
    /\ UNCHANGED <<collection, phone_database, last>>

\* lines 108-112 with r, what they did after add_phones returned add
Stored(add, r) ==
    /\ collection' = add.coll
    /\ phone_database' = r.database
    /\ call' = [call EXCEPT !.df = r.df,
                            !.raised = r.raised,
                            !.writes = @ + 1,
                            !.trace = Append(@, "STORING")]

\* line 105 has returned add
Added(add) ==
    Stored(add, StoreOutcome(add, phone_database, call.scraped_data))

\* lines 100-112: add to the cache, merge into the working set, return
Store ==
    /\ pc = "STORING"
    /\ \E lib \in LibModes :
        Added(AddPhones(collection, call.scraped_data, lib))
    /\ pc' = "DONE"
    /\ UNCHANGED last

\* the call has returned call.df
Return ==
    /\ pc = "DONE"
    /\ pc' = "idle"
    /\ call' = NoCall
    /\ UNCHANGED <<collection, phone_database, last>>

\* the application: a DataFetchAgent and its cache
Next ==
    \/ Restart
    \/ Enhance
    \/ CacheLookup
    \/ Fetch
    \/ Store
    \/ Return

Spec == Init /\ [][Next]_vars

(* ------------------ a process started on a filled Store ---------------- *)
\* files are ingested into the Store, and a process constructs its
\* DataFetchAgent on the persist directory
SavedFiles ==
    Files \cup [kind : {"list"}, data : {<<PhonePoco, PhonePocoElsewhere>>}]

IngestSaved ==
    /\ pc = "idle"
    /\ \E file \in SavedFiles, lib \in LibModes :
        Wrote("bulk_ingest_from_file", file.data,
              BulkIngest(collection, file, lib))
    /\ UNCHANGED <<phone_database, pc, call>>

NextStart ==
    \/ IngestSaved
    \/ Restart

SpecStart == Init /\ [][NextStart]_vars

(* ------------------------------ the core ------------------------------- *)
\* a process uses its DataFetchAgent
AgentStep ==
    /\ last = NoOp
    /\ Next

\* a process that has made no scrape_live_phones call uses a PhoneCache
CacheStep ==
    /\ phone_database = <<>>
    /\ call = NoCall
    /\ NextCache

\* the callers of the core: those of DataFetchAgent.scrape_live_phones and
\* those of the PhoneCache operations
NextCore ==
    \/ AgentStep
    \/ CacheStep

SpecCore == Init /\ [][NextCore]_vars

(* ------------------------ the store's contract ------------------------- *)
\* the entries of coll stored under id
Under(coll, id) ==
    {i \in 1..Len(coll) : coll[i].id = id}

\* the metadata coll holds under id
ValuesUnder(coll, id) ==
    {coll[i].metadata : i \in Under(coll, id)}

\* C1: every record in the Store before a new PhoneCache is constructed on
\* the same persist directory is still in the Store afterwards.
C1_RecordsSurviveRestart ==
    last.op = "init" =>
        \A i \in 1..Len(last.before) :
            \E j \in 1..Len(collection) : collection[j] = last.before[i]

\* C2: when add_phones([r]) is called a second time, the Store count is the
\* count after the first call and exactly one record is stored under r's
\* identity key.
C2_SecondAddChangesNothing ==
    (last.op = "add_phones" /\ last.repeat /\ Len(last.phones) = 1) =>
        /\ Count(collection) = Count(last.before)
        /\ Cardinality(Under(collection, PhoneId(last.phones[1]).id)) = 1

C4_HitNeverScrapes ==
    call.cached_phones # <<>> =>
        /\ call.scrapes = 0
        /\ call.writes = 0
        /\ pc = "DONE" => call.df = call.cached_phones

\* a call answered from the cache with fewer records than max_phones, for a
\* query equal to a stored document
C4_PartialHit ==
    /\ pc = "DONE"
    /\ call.cached_phones # <<>>
    /\ Len(call.df) < call.max_phones
    /\ \E i \in 1..Len(collection) : collection[i].document = call.enhanced_query

\* the steps of a call, in their order
StepOrder ==
    <<"ENHANCING", "CACHE_LOOKUP", "FETCHING", "NORMALIZING", "STORING">>

\* C5: the steps of a call are taken in the order enhance, cache lookup,
\* fetch, normalize, store; the scraper is called only after a cache lookup
\* of the same call that returned nothing, and the Store is written only
\* after a scrape of the same call.
C5_StepOrder ==
    /\ Len(call.trace) <= Len(StepOrder)
    /\ call.trace = SubSeq(StepOrder, 1, Len(call.trace))
    /\ call.scrapes > 0 => (call.lookups = 1 /\ call.cached_phones = <<>>)
    /\ call.writes > 0 => (call.scrapes = 1 /\ call.scraped_data # <<>>)

\* a call that went through every step
C5_AllSteps ==
    /\ pc = "DONE"
    /\ call.trace = StepOrder
    /\ call.writes = 1

\* C6: a call invokes the scraper at most once, and when the scrape raises
\* or returns nothing the call ends with an empty result, with no write and
\* no step taken twice.
C6_NoRetry ==
    /\ call.scrapes <= 1
    /\ (call.scrapes = 1 /\ call.scraped_data = <<>>) =>
            /\ pc = "DONE"
            /\ call.df = <<>>
            /\ call.writes = 0
            /\ call.lookups = 1
            /\ call.trace \in {SubSeq(StepOrder, 1, 3), SubSeq(StepOrder, 1, 4)}

\* a call whose scrape raised
C6_ScrapeFailed ==
    /\ pc = "DONE"
    /\ call.scrapes = 1
    /\ call.trace = SubSeq(StepOrder, 1, 3)
    /\ call.df = <<>>

(* ----------------------- the search's contract ------------------------- *)
\* C7: search_in_cache on an empty Store returns the empty list and issues
\* no nearest-neighbour query, whatever the query and the limit.
C7_EmptyStoreNoQuery ==
    (last.op = "search_in_cache" /\ Count(last.before) = 0) =>
        (last.rows = <<>> /\ ~last.queried)

\* a search of the empty Store with the largest limit
C7_SearchedEmpty ==
    /\ last.op = "search_in_cache"
    /\ collection = <<>>
    /\ last.limit = MaxLimit

\* a result row without the two fields the search adds
StoredFields(row) ==
    With(row, [_distance |-> Absent, _score |-> Absent])

\* C8: on a non-empty Store, search_in_cache(query, limit) asks for
\* min(limit, count) records and returns at most that many, each of them a
\* record of the Store and none of them twice.
C8_AtMostMinLimitCount ==
    (last.op = "search_in_cache" /\ Count(last.before) > 0) =>
        /\ last.n_results = (IF last.limit < Count(collection)
                             THEN last.limit ELSE Count(collection))
        /\ Len(last.rows) <= last.n_results
        /\ \E pick \in [1..Len(last.rows) -> 1..Len(collection)] :
            /\ \A r \in 1..Len(last.rows) :
                  StoredFields(last.rows[r]) = collection[pick[r]].metadata
            /\ \A r1, r2 \in 1..Len(last.rows) : pick[r1] = pick[r2] => r1 = r2

\* a search that returned fewer records than the Store holds, the limit
\* being the smaller
C8_LimitBelowCount ==
    /\ last.op = "search_in_cache"
    /\ last.limit < Count(collection)
    /\ Len(last.rows) = last.limit
    /\ last.limit > 0

\* C9 as stated: every returned record's score equals max(0, 1 - d) * 100
\* and lies in [0, 100].
C9_ScoreIsExact ==
    last.op = "search_in_cache" =>
        \A r \in 1..Len(last.rows) :
            LET d == last.rows[r]["_distance"].n
                score == last.rows[r]["_score"].n
            IN  /\ 0 <= score /\ score <= 100 * 100
                /\ score * DistScale
                     = (IF d < DistScale THEN DistScale - d ELSE 0) * 100 * 100

\* C9 amended: every returned record's score is max(0, 1 - d) * 100 rounded
\* to two decimals (it differs from it by at most 0.005) and lies in
\* [0, 100].
C9_ScoreIsRounded ==
    last.op = "search_in_cache" =>
        \A r \in 1..Len(last.rows) :
            LET d == last.rows[r]["_distance"].n
                score == last.rows[r]["_score"].n
                exact == (IF d < DistScale THEN DistScale - d ELSE 0) * 100 * 100
                diff == score * DistScale - exact
            IN  /\ 0 <= score /\ score <= 100 * 100
                /\ 2 * diff <= DistScale /\ 2 * diff >= 0 - DistScale

\* a record returned with a distance above 1, and so with score 0
C9_FarRecord ==
    /\ last.op = "search_in_cache"
    /\ \E r \in 1..Len(last.rows) :
        /\ last.rows[r]["_distance"].n > DistScale
        /\ last.rows[r]["_score"].n = 0

\* C10: every record in the Store has price > 0.
C10_StoredPricePositive ==
    \A i \in 1..Len(collection) :
        /\ collection[i].metadata["price"].t = "int"
        /\ collection[i].metadata["price"].n > 0

(* --------------------- the normalizer's contract ----------------------- *)
\* the scraper has structured the pages it read
Structured ==
    last.op = "scrape_flipkart" /\ last.done

\* row is the record of listing prod
RecordOf(row, prod) ==
    /\ row["full_name"] = PyStr(prod.name)
    /\ row["url"] = PyStr(prod.url)
    /\ row["price"] = PyInt(ParsePrice(prod.price))

\* the name of prod holds one of the keywords, in any case
NameHolds(prod, keywords) ==
    \E keyword \in keywords : Contains(Lower(prod.name), keyword)

\* prod has a phone's name and a price in the range
Validates(prod) ==
    /\ ~NameHolds(prod, exclude_keywords)
    /\ NameHolds(prod, phone_keywords)
    /\ ParsePrice(prod.price) >= 5000
    /\ ParsePrice(prod.price) <= 200000

\* C11: every record _structure_flipkart_data outputs comes from a listing
\* whose name holds no accessory keyword and holds a phone keyword and whose
\* parsed price lies in [5000, 200000]; a listing failing one of these has
\* no record in the output; a price text without a digit parses to 0.
C11_OnlyValidListings ==
    Structured =>
        /\ \A r \in 1..Len(last.rows) :
            \E i \in 1..Len(last.raw) :
                RecordOf(last.rows[r], last.raw[i]) /\ Validates(last.raw[i])
        /\ \A i \in 1..Len(last.raw) :
            ~Validates(last.raw[i]) =>
                \A r \in 1..Len(last.rows) : ~RecordOf(last.rows[r], last.raw[i])
        /\ \A i \in 1..Len(last.raw) :
            (\A k \in 1..Len(last.raw[i].price) : ~IsDigit(last.raw[i].price[k]))
                => ParsePrice(last.raw[i].price) = 0

\* an accessory with a phone's price and a phone were read, and only the
\* phone was output
C11_AccessoryRejected ==
    /\ Structured
    /\ last.raw = <<RawCase, RawPoco>>
    /\ Len(last.rows) = 1
    /\ RecordOf(last.rows[1], RawPoco)

\* the category the claim gives to price
CategoryByClaim(price) ==
    CASE price < 15000 -> Budget
      [] price >= 15000 /\ price < 35000 -> MidRange
      [] price >= 35000 -> Flagship

\* C12: _categorize_phone(p) is "Budget" below 15000, "Mid-range" from 15000
\* to below 35000 and "Flagship" from 35000 on, and every record the
\* normalizer outputs has the category of its own price.
C12_CategoryOfPrice ==
    /\ last.op = "_categorize_phone" => last.text = CategoryByClaim(last.price)
    /\ Structured =>
        \A r \in 1..Len(last.rows) :
            last.rows[r]["category"]
                = PyStr(CategoryByClaim(last.rows[r]["price"].n))

\* _categorize_phone was called at the lower threshold
C12_AtThreshold ==
    /\ last.op = "_categorize_phone"
    /\ last.price = 15000
    /\ last.text = MidRange

\* the r-th least element of a set of numbers
NthOf(S, r) ==
    CHOOSE i \in S : Cardinality({j \in S : j < i}) = r - 1

\* the output for listing i of the last scrape when it is structured alone
Alone(i) ==
    structure_flipkart_data(<<last.raw[i]>>, <<last.ais[i]>>)

\* C13: the output of _structure_flipkart_data for a list is, in input
\* order, what each listing yields when structured alone: a listing that
\* fails or is rejected changes nothing for the others.
C13_BatchIsolation ==
    Structured =>
        LET kept == {i \in 1..Len(last.raw) : Alone(i) # <<>>}
        IN  /\ Len(last.rows) = Cardinality(kept)
            /\ \A r \in 1..Len(last.rows) :
                  <<last.rows[r]>> = Alone(NthOf(kept, r))

\* a listing whose rating raises was read before a phone, and the phone was
\* output
C13_FailureThenPhone ==
    /\ Structured
    /\ last.raw = <<RawBadRating, RawPoco>>
    /\ Len(last.rows) = 1
    /\ RecordOf(last.rows[1], RawPoco)

\* the answer is a JSON object that has the six spec fields
SixFieldObject(ai) ==
    ai.kind = "dict" /\ \A k \in SpecKeys : ai.specs[k].t # "absent"

\* C14: a listing for which the service fails, or answers anything but an
\* object with the six spec fields, is output as it is when the service is
\* not there at all: with the specs the regex strategy finds, and not
\* dropped.
C14_FallbackToRegex ==
    Structured =>
        \A i \in 1..Len(last.raw) :
            ~SixFieldObject(last.ais[i]) =>
                Alone(i) = structure_flipkart_data(<<last.raw[i]>>, <<AiFail>>)

(* ---------------------- the enhancer's contract ------------------------ *)
\* the enhancer was called with a query and got an answer
Enhanced ==
    last.op = "_enhance_query_with_ai"

\* what strip() and the two strip(quote) calls take from the ends of a text
Stripped ==
    {" ", "\t", "\n", "\"", "'"}

\* out is a piece of text
PieceOf(out, text) ==
    \E i \in 1..Len(text) : SubSeq(text, i, i + Len(out) - 1) = out

\* C15: _enhance_query_with_ai returns the raw query unchanged, or a
\* non-empty piece of the service's text of at most 50 characters; it returns
\* the raw query when the service is unavailable or raises, and when its text
\* is empty or, between its end characters, longer than 50.
C15_EnhancerNoWorse ==
    Enhanced =>
        /\ \/ last.text = last.query
           \/ /\ last.answer.kind = "text"
              /\ last.text # <<>>
              /\ Len(last.text) <= 50
              /\ PieceOf(last.text, last.answer.text)
        /\ last.answer.kind = "fail" => last.text = last.query
        /\ (last.answer.kind = "text" /\ last.answer.text = <<>>)
                => last.text = last.query
        /\ (/\ last.answer.kind = "text"
            /\ Len(last.answer.text) > 50
            /\ last.answer.text[1] \notin Stripped
            /\ last.answer.text[Len(last.answer.text)] \notin Stripped)
                => last.text = last.query

\* the service's text of 50 characters between blanks was returned, stripped
C15_LongestAccepted ==
    /\ Enhanced
    /\ last.query = QGaming
    /\ Len(last.answer.text) = 52
    /\ Len(last.text) = 50

\* C16: the string the enhancer returns has at most 5 words.
C16_AtMostFiveWords ==
    Enhanced => Len(Split(last.text)) <= 5

\* C17: no operation of the core raises to its caller: scrape_live_phones,
\* search_in_cache, add_phones, bulk_ingest_from_file, get_all_cached_phones
\* and get_cache_stats return a value whatever the input and whichever call
\* to the enhancer, the Store, the scraper or the spec extraction raises.
C17_NothingEscapes ==
    /\ ~call.raised
    /\ ~last.raised

\* a scrape_live_phones call has returned although the Store rejected the
\* write: a scraped record has a value int() raises on
C17_WriteRaisedCallReturned ==
    /\ pc = "DONE"
    /\ call.writes = 1
    /\ \E i \in 1..Len(call.scraped_data) : ~MetadataOk(call.scraped_data[i])
    /\ ~call.raised

\* C18: a scrape_live_phones call during which the Store's search raised
\* ends with an empty result.
C18_StoreFailureIsFatal ==
    (pc = "DONE" /\ call.failed) => call.df = <<>>

\* the brands and the prices of the records of coll
BrandsIn(coll) ==
    {coll[i].metadata["brand"].s : i \in 1..Len(coll)}

PricesIn(coll) ==
    {coll[i].metadata["price"].n : i \in 1..Len(coll)}

\* C19: when the Store answers its reads, get_cache_stats returns the
\* number of stored records as total_phones, the distinct brands of the
\* stored records in increasing order as brands, and the least and the
\* greatest stored price as price_range, the first not above the second; it
\* returns total 0, no brands and (0, 0) exactly when the Store is empty.
C19_StatsReflectStore ==
    (last.op = "get_cache_stats" /\ ~last.failed) =>
        LET stats == last.stats
            coll == last.before
        IN  /\ stats.total_phones = Len(coll)
            /\ Len(stats.brands) = Cardinality(BrandsIn(coll))
            /\ {stats.brands[i] : i \in 1..Len(stats.brands)} = BrandsIn(coll)
            /\ \A i, j \in 1..Len(stats.brands) :
                    i < j => StrLess(stats.brands[i], stats.brands[j])
            /\ coll # <<>> =>
                    /\ stats.price_range[1] \in PricesIn(coll)
                    /\ stats.price_range[2] \in PricesIn(coll)
                    /\ \A p \in PricesIn(coll) :
                            /\ stats.price_range[1] <= p
                            /\ p <= stats.price_range[2]
            /\ stats.price_range[1] <= stats.price_range[2]
            /\ (stats = NoStats) <=> (coll = <<>>)

\* the statistics of a Store of several brands and prices
C19_SeveralBrands ==
    /\ last.op = "get_cache_stats"
    /\ ~last.failed
    /\ Len(last.stats.brands) >= 2
    /\ last.stats.price_range[1] < last.stats.price_range[2]

\* the number a Python value stands for, in tenths: 8 and 8.0 are equal
NumberOf(v) ==
    IF v.t = "int" THEN 10 * v.n ELSE v.n

\* a == b in Python
SameValue(a, b) ==
    IF a.t \in {"int", "float"} /\ b.t \in {"int", "float"}
    THEN NumberOf(a) = NumberOf(b)
    ELSE a = b

\* the rows read back hold, at the place of r's id in the Store, a row
\* whose fields have r's values
ReadBackAs(r) ==
    \E i \in 1..Len(collection) :
        /\ collection[i].id = PhoneId(r).id
        /\ i \in 1..Len(last.rows)
        /\ \A k \in StrKeys \cup IntKeys \cup FloatKeys :
                SameValue(last.rows[i][k], r[k])

\* C20: after add_phones([r]) for a record r output by the normalizer,
\* get_all_cached_phones returns under r's id a row whose field values are
\* those of r.
C20_RoundTrip ==
    (last.op = "get_all_cached_phones" /\ last.done) =>
        ReadBackAs(last.phones[1])

(* ------------------------- the working set ----------------------------- *)
\* the rows of database whose full_name is name
RowsNamed(database, name) ==
    {i \in 1..Len(database) : database[i]["full_name"] = name}

\* C21: no two rows of phone_database have the same full_name, after
\* construction and after any sequence of scrape_live_phones calls.
C21_WorkingSetUnique ==
    pc = "idle" =>
        \A i \in 1..Len(phone_database) :
            RowsNamed(phone_database, phone_database[i]["full_name"]) = {i}

\* the last row of df whose full_name is name
LastNamed(df, name) ==
    df[CHOOSE i \in RowsNamed(df, name) : \A j \in RowsNamed(df, name) : j <= i]

\* the step ends a scrape_live_phones call that returns rows
Returns ==
    pc # "DONE" /\ pc' = "DONE" /\ ~call'.raised /\ call'.df # <<>>

\* C22: within one process the working set is append-only and the most
\* recent write wins: a step of the process keeps a row for every full_name
\* phone_database has, with the same values unless the step ends a call that
\* returns a record of that name; and when a call returns, phone_database
\* has for each returned full_name exactly one row, the last returned record
\* of that name.
C22_AppendOnlyLastWins ==
    [][~(pc = "idle" /\ pc' = "idle") =>
        /\ \A i \in 1..Len(phone_database) :
              phone_database[i]["full_name"] # Absent =>
                \E j \in 1..Len(phone_database') :
                    /\ phone_database'[j]["full_name"]
                            = phone_database[i]["full_name"]
                    /\ \/ phone_database'[j] = phone_database[i]
                       \/ /\ Returns
                          /\ RowsNamed(call'.df,
                                       phone_database[i]["full_name"]) # {}
        /\ Returns =>
              \A i \in 1..Len(call'.df) :
                call'.df[i]["full_name"] # Absent =>
                  \E j \in 1..Len(phone_database') :
                    /\ RowsNamed(phone_database', call'.df[i]["full_name"]) = {j}
                    /\ phone_database'[j]
                            = LastNamed(call'.df, call'.df[i]["full_name"])
    ]_vars

\* a call returns a record whose full_name the Store holds at another price:
\* the working set then has the returned record
C22_NewerRecordReturned ==
    /\ pc = "DONE" /\ ~call.raised
    /\ Len(phone_database) > Len(call.df)
    /\ \E i \in 1..Len(call.df), k \in 1..Len(collection) :
          /\ collection[k].metadata["full_name"] = call.df[i]["full_name"]
          /\ collection[k].metadata["price"] # call.df[i]["price"]
          /\ \E j \in 1..Len(phone_database) : phone_database[j] = call.df[i]

(* ----------------------------- process start --------------------------- *)
\* C23: right after DataFetchAgent is constructed, phone_database holds
\* exactly the records the Store held at the end of the previous run, that
\* is the rows of get_all on the persisted Store.
C23_RebuiltFromStore ==
    [][Restart =>
        phone_database' = GetAllCachedPhones(collection, FALSE).rows]_vars

(* ------------------------ the count add_phones returns ----------------- *)
\* the identity keys of the records of phones
GivenIds(phones) ==
    {PhoneId(phones[i]).id : i \in {j \in 1..Len(phones) : PhoneId(phones[j]).ok}}

\* the records of coll that before does not hold: written new or over others
WrittenSince(before, coll) ==
    {k \in 1..Len(coll) : \A j \in 1..Len(before) : before[j] # coll[k]}

NonNegativeNumber(v) ==
    v.t \in {"int", "float"} /\ v.n >= 0

\* C25: every record the normalizer outputs has price, rating, ram, storage,
\* camera_mp, battery_mah and display_inches all non-negative numbers, and a
\* listing that validates is output whatever its rating text or the
\* service's answer is: a malformed value becomes the default, and the
\* listing is not dropped.
C25_NumericFields ==
    Structured =>
        /\ \A r \in 1..Len(last.rows) :
              \A k \in IntKeys \cup FloatKeys :
                  NonNegativeNumber(last.rows[r][k])
        /\ \A i \in 1..Len(last.raw) :
              Validates(last.raw[i]) =>
                  \E r \in 1..Len(last.rows) : RecordOf(last.rows[r], last.raw[i])

(* -------------------------- nothing is removed ------------------------- *)
\* C26: no operation removes an identity key from the Store: every key
\* stored before a step of PhoneCache or of DataFetchAgent (their
\* construction included) is stored after it, so the count never decreases.
C26_NoKeyRemoved ==
    [][/\ CollIds(collection) \subseteq CollIds(collection')
       /\ Len(collection) <= Len(collection')]_vars

(* ------------------------- stored, then returned ----------------------- *)
\* C27: when scrape_live_phones returns a non-empty freshly fetched result,
\* every returned record is in the Store under its identity key.
C27_StoredBeforeReturned ==
    (pc = "DONE" /\ call.writes = 1 /\ ~call.raised) =>
        \A i \in 1..Len(call.df) :
            PhoneId(call.df[i]).id \in CollIds(collection)

(* ------------------------- a Store that is not empty ------------------- *)
\* C28: once the Store holds a record, a scrape_live_phones call with
\* max_phones >= 1 whose search does not fail is answered as a cache hit,
\* whatever its query: the search step ends the call with the rows found,
\* and the scraper has not been called.
C28_NonEmptyStoreHits ==
    [][(/\ pc = "CACHE_LOOKUP"
        /\ collection # <<>>
        /\ call.max_phones >= 1
        /\ ~call'.failed) =>
            /\ pc' = "DONE"
            /\ ~call'.raised
            /\ call'.cached_phones # <<>>
            /\ call'.df = call'.cached_phones
            /\ call'.scrapes = 0]_vars

\* a call that stored a record was followed, in the same process, by a call
\* of another query that was answered from the Store
C28_HitAfterStoring ==
    /\ pc = "DONE" /\ ~call.raised /\ ~call.failed
    /\ call.max_phones >= 1
    /\ call.lookups = 1 /\ call.scrapes = 0
    /\ call.df # <<>>
    /\ call.enhanced_query = DocOf(PhonePoco)
    /\ \A i \in 1..Len(collection) : collection[i].document # call.enhanced_query
    /\ phone_database # <<>>

(* ---------------------------- an empty outcome ------------------------- *)
\* C29: a scrape_live_phones call that returns an empty result leaves the
\* Store and phone_database as they were before the call: every step of a
\* call after which the call has no rows to return changes neither (the
\* rows are assigned by the step that ends the call).
C29_EmptyChangesNothing ==
    [][((pc # "idle" \/ pc' # "idle") /\ call'.df = <<>>) =>
            /\ collection' = collection
            /\ phone_database' = phone_database]_vars

\* a call has ended empty after its scrape, on a Store and a working set
\* that hold records
C29_EmptyOnFilledStore ==
    /\ pc = "DONE" /\ ~call.raised
    /\ call.df = <<>>
    /\ call.scrapes = 1 /\ call.writes = 0
    /\ collection # <<>>
    /\ phone_database # <<>>

(* ----------------------------- identity keys --------------------------- *)
\* the records p and q have the same full_name and the same url
SameListing(p, q) ==
    /\ Get(p, "full_name", PyNone) = Get(q, "full_name", PyNone)
    /\ Get(p, "url", PyNone) = Get(q, "url", PyNone)

\* C30: two records get the same identity key only if they have the same
\* full_name and the same url, and records that differ in one of them are
\* both kept: after add_phones of records whose fields all convert, the
\* Store holds, for every record of the list, a record of its full_name and
\* url.
C30_KeysSeparateListings ==
    (last.op = "add_phones"
        /\ \A i \in 1..Len(last.phones) : MetadataOk(last.phones[i])) =>
        /\ \A i, j \in 1..Len(last.phones) :
              PhoneId(last.phones[i]) = PhoneId(last.phones[j]) =>
                  SameListing(last.phones[i], last.phones[j])
        /\ \A i \in 1..Len(last.phones) :
              \E k \in 1..Len(collection) :
                  SameListing(collection[k].metadata,
                              MetadataOf(last.phones[i]))
====
